---- MODULE Spec2Model ----
(***************************************************************************)
(* Model of ultest's Handler (rplugin/python3/ultest/handler/__init__.py): *)
(* the per-file snapshot of tests, the reconciliation pass                 *)
(* (update_positions and its runner coroutine), run dispatch, external     *)
(* start/result injection and stop.  The collaborators VimClient,          *)
(* ProcessManager, ResultStore and TestFinder are modelled at their        *)
(* interface.                                                              *)
(***************************************************************************)
EXTENDS Integers, Sequences, FiniteSets, Bags, TLC

\* ---------------------------------------------------------------- bounds
MaxLine == 2        \* source lines are 1..MaxLine
MaxPasses == 1      \* runner coroutines awaiting the Locator at one time
MaxJobs == 1        \* run coroutines awaiting the Run Engine, per test id
MaxScheduled == 1   \* callbacks deferred with schedule(), not yet run

\* ---------------------------------------------------------------- values
Files == {"f"}
Ids == {"a", "b"}
Lines == 1..MaxLine
Codes == {0, 1}
Outputs == {"", "out"}

\* the fields of the models.Test dataclass, none with a default
TestFields == {"id", "name", "file", "line", "col", "running"}

\* key sets of the test_dict payloads the editor may send; {} is also None
PayloadKeys ==
  {{}, TestFields, TestFields \ {"running"}, TestFields \cup {"extra"}, {"id"}}

\* models.Test; name and col are carried by no operation of the Handler
Test(id, file, line, running) ==
  [id |-> id, file |-> file, line |-> line, running |-> running]

\* models.Result as the Handler builds it in external_result
Result(id, file, code, output) ==
  [id |-> id, file |-> file, code |-> code, output |-> output]

\* ResultStore.get's None
NoResult == [id |-> "", file |-> "", code |-> 0 - 1, output |-> ""]

NoTest == Test("", "", 0, FALSE)

\* one effect of a handler step on its collaborators, in program order
Ev(ev, test, res) == [ev |-> ev, test |-> test, res |-> res]

\* callback=None of update_positions
NoCallback == [op |-> "none", line |-> 0, attempt |-> 0]

RECURSIVE SeqIds(_)
SeqIds(tests) ==
  IF tests = <<>> THEN {} ELSE {Head(tests).id} \cup SeqIds(Tail(tests))

\* TestFinder.find_all: the ordered tests of a file, ids unique, in line
\* order, not running
FindAllResults ==
  [file \in Files |->
     LET all == {Test(i, file, l, FALSE) : i \in Ids, l \in Lines}
         seqs == UNION {[1..n -> all] : n \in 0..Cardinality(Ids)}
     IN {s \in seqs : \A i, j \in 1..Len(s) :
                         i < j => /\ s[i].id # s[j].id
                                  /\ s[i].line < s[j].line}]

VARIABLES
  stored_tests,   \* Handler._stored_tests: file -> list of Test
  results,        \* ResultStore: file -> id -> Result or NoResult
  jobs,           \* run coroutines launched under a test id: file -> id -> count
  passes,         \* runner coroutines awaiting find_all: a bag of passes
  scheduled,      \* callbacks deferred by VimClient.schedule, FIFO
  ext_output,     \* ProcessManager's external output buffer: id -> text
  show_on_run,    \* Handler._show_on_run
  trace,          \* effects of the last step, in program order
  last,           \* the last step: operation and arguments
  observe,        \* the history kept for the properties: a subset of
                  \* {"base", "stale", "removed", "external", "unmatched",
                  \* "prior"}, constant; the tag "overlap" widens the
                  \* caps on simultaneous runs and passes by one
  ext_started,    \* "external": ids with an external_start not yet followed
                  \* by an external_result or a stop
  removed,        \* "removed": file -> ids that some pass reported removed
  unmatched       \* "unmatched": id -> test-started notifications not yet
                  \* matched by a result; -1 once a result was notified
                  \* with none to match

\* the caps on run coroutines per id and on pending passes in force
JobCap == IF "overlap" \in observe THEN MaxJobs + 1 ELSE MaxJobs
PassCap == IF "overlap" \in observe THEN MaxPasses + 1 ELSE MaxPasses

vars == <<stored_tests, results, jobs, passes, scheduled, ext_output,
          show_on_run, trace, last, observe, ext_started, removed,
          unmatched>>

Step(op, file, id, recorded, found, attempt, flag) ==
  [op |-> op, file |-> file, id |-> id, recorded |-> recorded,
   found |-> found, attempt |-> attempt, flag |-> flag, stale |-> {},
   prior |-> FALSE, buffer |-> "", line |-> 0, result |-> NoResult,
   inputs |-> <<TRUE, "ok">>, keys |-> TestFields, raised |-> FALSE]

\* Handler.__init__
InitHandler ==
  /\ stored_tests = [f \in Files |-> <<>>]
  /\ results = [f \in Files |-> [i \in Ids |-> NoResult]]
  /\ jobs = [f \in Files |-> [i \in Ids |-> 0]]
  /\ passes = EmptyBag
  /\ scheduled = <<>>
  /\ ext_output = [i \in Ids |-> ""]
  /\ show_on_run \in BOOLEAN
  /\ trace = <<>>
  /\ last = Step("init", "", "", <<>>, <<>>, 0, FALSE)
  /\ ext_started = {}
  /\ removed = [f \in Files |-> {}]
  /\ unmatched = [i \in Ids |-> 0]

Init == InitHandler /\ observe = {}

\* ------------------------------------------------------- collaborators
\* ProcessManager.is_running
is_running(id) == \E f \in Files : jobs[f][id] > 0

\* ResultStore.get
results_get(file, id) == results[file][id]

\* ResultStore.add
results_add(res, file, result) ==
  [res EXCEPT ![file] = [@ EXCEPT ![result.id] = result]]

\* TestFinder.get_nearest_from: strict wants the exact line; non-strict the
\* closest test by position (equidistant tests: either)
NearestCandidates(line, tests, strict) ==
  LET dist(k) == IF tests[k].line >= line THEN tests[k].line - line
                 ELSE line - tests[k].line
  IN IF strict THEN {k \in 1..Len(tests) : tests[k].line = line}
     ELSE {k \in 1..Len(tests) : \A j \in 1..Len(tests) : dist(k) <= dist(j)}

\* VimClient.stop(group): cancels the coroutines launched under the group
vim_stop(js, id) == [f \in Files |-> [js[f] EXCEPT ![id] = 0]]

\* a deferred call: VimClient.schedule(func, *args)
Call(op, file, line, update_empty, attempt, result) ==
  [op |-> op, file |-> file, line |-> line, update_empty |-> update_empty,
   attempt |-> attempt, result |-> result]

RemoveAt(s, k) == SubSeq(s, 1, k - 1) \o SubSeq(s, k + 1, Len(s))

\* ------------------------------------------------------ reconciliation
\* recorded_tests of update_positions: the previous tests by id.  The dict
\* holds the Test objects of the snapshot; only id and line are read from
\* them, and the running flag handed on with a removal is left out.
Recorded(tests) ==
  [k \in 1..Len(tests) |-> [tests[k] EXCEPT !.running = FALSE]]

\* faulty variant: empty patterns are not checked
PositionsAvailableUnchecked(isfile, patterns) == isfile /\ patterns # "raise"

\* update_positions, the three early returns
PositionsAvailable(isfile, patterns) == isfile /\ patterns = "ok"

\* update_positions: the editor-visible caches are reset when recorded_tests
\* is empty
ResetEvents(recorded) ==
  IF recorded = <<>>
  THEN << Ev("setbufvar_results", NoTest, NoResult),
          Ev("setbufvar_tests", NoTest, NoResult),
          Ev("setbufvar_sorted_tests", NoTest, NoResult) >>
  ELSE <<>>

\* update_positions up to launch(runner()): the new passes and the effects
update_positions(file_name, isfile, patterns, callback) ==
  LET recorded_tests == Recorded(stored_tests[file_name])
      enter == << Ev("update_positions", NoTest, NoResult) >>
  IN IF PositionsAvailable(isfile, patterns)
     THEN [passes |-> passes (+) SetToBag({[file |-> file_name,
                                             recorded |-> recorded_tests,
                                             callback |-> callback]}),
           trace |-> enter \o ResetEvents(recorded_tests)
                     \o << Ev("launch_runner", NoTest, NoResult) >>]
     ELSE [passes |-> passes, trace |-> enter]

\* the ids a list of tests flags as running
RunningIds(tests) == {tests[k].id : k \in {j \in 1..Len(tests) : tests[j].running}}

\* faulty variant: the moved test keeps the flag the snapshot held for it
MoveRunningStale(test, recorded) ==
  test.id \in RunningIds(stored_tests[test.file])

\* runner: the running flag given to a moved test
MoveRunning(test, recorded) == is_running(test.id)

\* faulty variant: the cache is not consulted
ExistingResultNone(test) == NoResult

\* runner: the result looked up for a test that is not in recorded_tests
ExistingResult(test) == results_get(test.file, test.id)

\* faulty variant: a matched test is not popped from recorded_tests
LoopStepNoPop(test, rec) ==
  IF test.id \in SeqIds(rec)
  THEN LET k == CHOOSE k \in 1..Len(rec) : rec[k].id = test.id
           moved == rec[k].line # test.line
           t2 == IF moved
                 THEN [test EXCEPT !.running = MoveRunning(test, rec[k])]
                 ELSE test
       IN [test |-> t2, rec |-> rec,
           evs |-> IF moved THEN << Ev("move", t2, NoResult) >> ELSE <<>>]
  ELSE [test |-> test, rec |-> rec,
        evs |-> IF ExistingResult(test) # NoResult
                THEN << Ev("replace", test, ExistingResult(test)) >>
                ELSE << Ev("new", test, NoResult) >>]

\* runner: one turn of the loop over the found tests; rec is what is left of
\* recorded_tests
LoopStep(test, rec) ==
  IF test.id \in SeqIds(rec)
  THEN LET k == CHOOSE k \in 1..Len(rec) : rec[k].id = test.id
           recorded == rec[k]
           moved == recorded.line # test.line
           t2 == IF moved
                 THEN [test EXCEPT !.running = MoveRunning(test, recorded)]
                 ELSE test
       IN [test |-> t2, rec |-> RemoveAt(rec, k),
           evs |-> IF moved THEN << Ev("move", t2, NoResult) >> ELSE <<>>]
  ELSE LET existing_result == ExistingResult(test)
       IN [test |-> test, rec |-> rec,
           evs |-> IF existing_result # NoResult
                   THEN << Ev("replace", test, existing_result) >>
                   ELSE << Ev("new", test, NoResult) >>]

RECURSIVE RunnerLoop(_, _)
RunnerLoop(tests, rec) ==
  IF tests = <<>> THEN [tests |-> <<>>, rec |-> rec, evs |-> <<>>]
  ELSE LET one == LoopStep(Head(tests), rec)
           rest == RunnerLoop(Tail(tests), one.rec)
       IN [tests |-> <<one.test>> \o rest.tests, rec |-> rest.rec,
           evs |-> one.evs \o rest.evs]

\* runner: the removal notifications for what is left of recorded_tests
RemovedEvents(rec) == [k \in 1..Len(rec) |-> Ev("clear", rec[k], NoResult)]

\* faulty variant: the batch event is sent before the removals
RunnerTailBatchFirst(rec, callback) ==
  << Ev("positions_updated", NoTest, NoResult) >>
  \o RemovedEvents(rec)
  \o (IF callback # NoCallback
      THEN << Ev("callback", NoTest, NoResult) >> ELSE <<>>)

\* runner: the effects after the loop (removals, batch event, callback)
RunnerTail(rec, callback) ==
  RemovedEvents(rec)
  \o << Ev("positions_updated", NoTest, NoResult) >>
  \o (IF callback # NoCallback
      THEN << Ev("callback", NoTest, NoResult) >> ELSE <<>>)

\* runner: everything after find_all returns tests
RunnerTrace(tests, recorded, callback) ==
  LET loop == RunnerLoop(tests, recorded)
  IN << Ev("commit", NoTest, NoResult),
        Ev("store_sorted_ids", NoTest, NoResult) >>
     \o loop.evs \o RunnerTail(loop.rec, callback)

\* faulty variant: the retry may refresh again
RetryUpdateEmptyOn == TRUE

\* run_after_update: the retry is scheduled with update_empty=False
RetryUpdateEmpty == FALSE

RetryCall(file, callback) ==
  Call(callback.op, file, callback.line, RetryUpdateEmpty,
       callback.attempt + 1, NoResult)

EvIds(evs, kinds) == {evs[k].test.id : k \in {j \in 1..Len(evs) : evs[j].ev \in kinds}}

\* ------------------------------------------------------------ dispatch
\* _register_started: running = 1 on the Test object it is given, then
\* register_new_test and the test-started notification
RegisterStartedEvents(test) ==
  << Ev("register_new_test", [test EXCEPT !.running = TRUE], NoResult),
     Ev("start", [test EXCEPT !.running = TRUE], NoResult) >>

\* _run_tests, one turn of the loop
RunOneEvents(test) ==
  RegisterStartedEvents(test)
  \o << Ev("build_cmd", [test EXCEPT !.running = TRUE], NoResult),
        Ev("launch", [test EXCEPT !.running = TRUE], NoResult) >>

RECURSIVE RunTestsEvents(_)
RunTestsEvents(tests) ==
  IF tests = <<>> THEN <<>>
  ELSE RunOneEvents(Head(tests)) \o RunTestsEvents(Tail(tests))

\* faulty variant: the snapshot is left with the dispatched tests only
MarkRunningOnly(tests, ids) ==
  SelectSeq([k \in 1..Len(tests) |-> [tests[k] EXCEPT !.running = TRUE]],
            LAMBDA t : t.id \in ids)

\* the Test objects of the snapshot that _run_tests is given: the loop sets
\* running on the very objects stored in _stored_tests
MarkRunning(tests, ids) ==
  [k \in 1..Len(tests) |->
     IF tests[k].id \in ids THEN [tests[k] EXCEPT !.running = TRUE]
     ELSE tests[k]]

SelectIds(tests, ids) == SelectSeq(tests, LAMBDA t : t.id \in ids)

StartGhost(um, ids) ==
  IF "unmatched" \notin observe THEN um
  ELSE [i \in Ids |-> IF i \in ids /\ um[i] >= 0 THEN um[i] + 1 ELSE um[i]]

ExitGhost(um, id) ==
  IF "unmatched" \notin observe THEN um
  ELSE [um EXCEPT ![id] = IF @ > 0 THEN @ - 1 ELSE 0 - 1]

ExtGhost(new) == IF "external" \in observe THEN new ELSE ext_started

\* _register_result: the deferred presentation, when there is output to show
PresentCalls(result) ==
  IF show_on_run /\ result.output # ""
  THEN << Call("present_output", result.file, 0, FALSE, 0, result) >>
  ELSE <<>>

\* _register_result: the cache after results.add
\* faulty variant: a Result already cached for the id is kept
RegisterResultCacheKeepFirst(result) ==
  IF results[result.file][result.id] # NoResult THEN results
  ELSE results_add(results, result.file, result)

\* _register_result: self._results.add(result.file, result)
RegisterResultCache(result) == results_add(results, result.file, result)

\* _run_tests(tests) for the tests of file_name with an id in ids; each
\* VimClient.launch(run(), test.id) adds a run coroutine under the test id
run_tests(file_name, ids, sched, pre) ==
  LET tests == SelectIds(stored_tests[file_name], ids)
      started == SeqIds(tests)
  IN /\ \A i \in started : /\ jobs[file_name][i] < JobCap
                           /\ unmatched[i] <= MaxJobs
     /\ stored_tests' = [stored_tests EXCEPT
                           ![file_name] = MarkRunning(@, started)]
     /\ jobs' = [jobs EXCEPT ![file_name] =
                   [i \in Ids |-> IF i \in started THEN @[i] + 1 ELSE @[i]]]
     /\ trace' = pre \o RunTestsEvents(tests)
     /\ unmatched' = StartGhost(unmatched, started)
     /\ scheduled' = sched
     /\ UNCHANGED <<observe, results, passes, ext_output, show_on_run, ext_started,
                    removed>>

\* a dispatch that found the snapshot empty: update_positions with the
\* retry as callback, when update_empty allows it
refresh_and_retry(op, file_name, line, update_empty, attempt, isfile, patterns, sched) ==
  LET up == update_positions(file_name, isfile, patterns,
                             [op |-> op, line |-> line, attempt |-> attempt])
  IN /\ update_empty => BagCardinality(passes) < PassCap
     /\ passes' = IF update_empty THEN up.passes ELSE passes
     /\ trace' = IF update_empty THEN up.trace ELSE <<>>
     /\ scheduled' = sched
     /\ UNCHANGED <<observe, stored_tests, results, jobs, ext_output, show_on_run,
                    ext_started, removed, unmatched>>

\* run_all
run_all(file_name, update_empty, attempt, isfile, patterns, sched) ==
  /\ last' = [Step("run_all", file_name, "", <<>>, <<>>, attempt, update_empty)
                EXCEPT !.inputs = <<isfile, patterns>>]
  /\ IF stored_tests[file_name] = <<>>
     THEN refresh_and_retry("run_all", file_name, 0, update_empty, attempt,
                            isfile, patterns, sched)
     ELSE run_tests(file_name, Ids, sched, <<>>)

\* run_nearest
run_nearest(line, file_name, update_empty, attempt, isfile, patterns, sched) ==
  /\ last' = [Step("run_nearest", file_name, "", <<>>, <<>>, attempt,
                     update_empty)
                EXCEPT !.inputs = <<isfile, patterns>>]
  /\ IF stored_tests[file_name] = <<>>
     THEN refresh_and_retry("run_nearest", file_name, line, update_empty,
                            attempt, isfile, patterns, sched)
     ELSE \E k \in NearestCandidates(line, stored_tests[file_name], FALSE) :
            run_tests(file_name, {stored_tests[file_name][k].id}, sched, <<>>)

\* run_single
run_single(test_id, file_name) ==
  /\ last' = Step("run_single", file_name, test_id, <<>>, <<>>, 0, FALSE)
  /\ run_tests(file_name, {test_id}, scheduled, <<>>)

\* (history) the cache holds another Result for the id of result
Overwrites(result) ==
  /\ "prior" \in observe
  /\ results[result.file][result.id] \notin {NoResult, result}

\* _register_result(test, result) with the queue of deferred calls it adds to
register_result(test, result, sched) ==
  /\ Len(sched) + Len(PresentCalls(result)) <= MaxScheduled
  /\ results' = RegisterResultCache(result)
  /\ trace' = << Ev("results_add", test, result), Ev("exit", test, result) >>
               \o (IF PresentCalls(result) # <<>>
                   THEN << Ev("schedule", test, result) >> ELSE <<>>)
  /\ scheduled' = sched \o PresentCalls(result)
  /\ unmatched' = ExitGhost(unmatched, result.id)

\* faulty variant: only the run of a test still in the snapshot is resumed
RunFinishesIfKnown(file, id) ==
  /\ jobs[file][id] > 0
  /\ id \in SeqIds(stored_tests[file])

\* "await process_manager.run(...)" returns to the coroutine of an active run
RunFinishes(file, id) == jobs[file][id] > 0

\* the run coroutine of _run_tests: process_manager.run returns, then
\* _register_result(test, result)
RunDone(file, id, code, output) ==
  /\ RunFinishes(file, id)
  /\ jobs' = [jobs EXCEPT ![file] = [@ EXCEPT ![id] = @ - 1]]
  /\ last' = [Step("run", file, id, <<>>, <<>>, 0, FALSE)
                EXCEPT !.prior = Overwrites(Result(id, file, code, output))]
  /\ register_result(Test(id, file, 0, TRUE), Result(id, file, code, output),
                     scheduled)
  /\ UNCHANGED <<observe, stored_tests, passes, ext_output, show_on_run, ext_started,
                 removed>>

\* external_start(test_dict, stdout)
external_start(id, file, stdout) ==
  LET test == Test(id, file, 0, TRUE)
  IN /\ unmatched[id] <= MaxJobs
     /\ last' = Step("external_start", file, id, <<>>, <<>>, 0, FALSE)
     /\ trace' = RegisterStartedEvents(test)
                  \o (IF stdout # ""
                      THEN << Ev("register_external_output", test, NoResult) >>
                      ELSE <<>>)
     /\ ext_output' = IF stdout # "" THEN [ext_output EXCEPT ![id] = stdout]
                      ELSE ext_output
     /\ ext_started' = ExtGhost(ext_started \cup {id})
     /\ unmatched' = StartGhost(unmatched, {id})
     /\ UNCHANGED <<observe, stored_tests, results, jobs, passes, scheduled,
                    show_on_run, removed>>

\* external_result(test_dict, exit_code, stdout)
external_result(id, file, running, exit_code, stdout) ==
  LET test == Test(id, file, 0, running)
      result == Result(test.id, test.file, exit_code, stdout)
  IN /\ last' = [Step("external_result", file, id, <<>>, <<>>, 0,
                      id \in ext_started)
                   EXCEPT !.prior = Overwrites(result)]
     /\ ext_output' = [ext_output EXCEPT ![test.id] = ""]
     /\ register_result(test, result, scheduled)
     /\ ext_started' = ExtGhost(ext_started \ {id})
     /\ UNCHANGED <<observe, stored_tests, jobs, passes, show_on_run, removed>>

\* faulty variant: every job is cancelled
StopJobsAll(id) == [f \in Files |-> [i \in Ids |-> 0]]

\* stop_test: the jobs left after vim.stop(test.id)
StopJobs(id) == vim_stop(jobs, id)

\* faulty variant: the move notification is sent without a payload too
StopEventsAlways(given, test) ==
  << Ev("stop", test, NoResult),
     Ev("move", [test EXCEPT !.running = FALSE], NoResult) >>

\* stop_test: vim.stop(test.id), test.running = 0, ultest#process#move
StopEvents(given, test) ==
  IF given
  THEN << Ev("stop", test, NoResult),
          Ev("move", [test EXCEPT !.running = FALSE], NoResult) >>
  ELSE <<>>

\* stop_test(test_dict); given is FALSE for stop_test(None)
stop_test(given, id, file) ==
  LET test == Test(id, file, 0, FALSE)
  IN /\ last' = [Step("stop_test", IF given THEN file ELSE "",
                      IF given THEN id ELSE "", <<>>, <<>>, 0, given)
                   EXCEPT !.prior = /\ "prior" \in observe
                                    /\ given
                                    /\ is_running(id)]
     /\ jobs' = IF given THEN StopJobs(test.id) ELSE jobs
     /\ trace' = StopEvents(given, test)
     /\ ext_started' = IF given THEN ExtGhost(ext_started \ {id})
                        ELSE ext_started
     /\ UNCHANGED <<observe, stored_tests, results, passes, scheduled, ext_output,
                    show_on_run, removed, unmatched>>

\* Test(**test_dict) constructs a Test; otherwise it raises TypeError
TestFromDict(keys) == keys = TestFields

\* faulty variant: the process manager is asked to stop the payload's id
\* before the constructor raises
RaiseAfterStop(op, keys) ==
  /\ last' = [Step(op, "", "", <<>>, <<>>, 0, FALSE)
               EXCEPT !.keys = keys, !.raised = TRUE]
  /\ trace' = << Ev("stop", NoTest, NoResult) >>
  /\ jobs' = [f \in Files |-> [i \in Ids |-> 0]]
  /\ UNCHANGED <<observe, stored_tests, results, passes, scheduled,
                 ext_output, show_on_run, ext_started, removed, unmatched>>

\* a handler left by the TypeError of Test(**test_dict)
Raise(op, keys) ==
  /\ last' = [Step(op, "", "", <<>>, <<>>, 0, FALSE)
               EXCEPT !.keys = keys, !.raised = TRUE]
  /\ trace' = <<>>
  /\ UNCHANGED <<observe, stored_tests, results, jobs, passes, scheduled,
                 ext_output, show_on_run, ext_started, removed, unmatched>>

\* external_start on a payload with the given keys
external_start_payload(keys, id, file, stdout) ==
  IF TestFromDict(keys) THEN external_start(id, file, stdout)
  ELSE Raise("external_start", keys)

\* external_result on a payload with the given keys
external_result_payload(keys, id, file, running, exit_code, stdout) ==
  IF TestFromDict(keys) THEN external_result(id, file, running, exit_code, stdout)
  ELSE Raise("external_result", keys)

\* stop_test on a payload with the given keys: "if not test_dict: return"
\* precedes Test(**test_dict)
stop_test_payload(keys, id, file) ==
  IF keys = {} THEN stop_test(FALSE, "", "")
  ELSE IF TestFromDict(keys) THEN stop_test(TRUE, id, file)
  ELSE Raise("stop_test", keys)

\* update_positions(file_name) called by the editor, callback=None
UpdatePositions(file_name, isfile, patterns) ==
  LET up == update_positions(file_name, isfile, patterns, NoCallback)
  IN /\ BagCardinality(passes) < PassCap
     /\ last' = [Step("update_positions", file_name, "", <<>>, <<>>, 0,
                      PositionsAvailable(isfile, patterns))
                   EXCEPT !.inputs = <<isfile, patterns>>]
     /\ passes' = up.passes
     /\ trace' = up.trace
     /\ UNCHANGED <<observe, stored_tests, results, jobs, scheduled, ext_output,
                    show_on_run, ext_started, removed, unmatched>>

\* the runner coroutine of pass k resumes: find_all returned tests
Runner(pass, tests) ==
  LET loop == RunnerLoop(tests, pass.recorded)
      evs == RunnerTrace(tests, pass.recorded, pass.callback)
  IN /\ pass.callback # NoCallback => Len(scheduled) < MaxScheduled
     /\ last' = [Step("runner", pass.file, "",
                      IF "base" \in observe THEN pass.recorded ELSE <<>>,
                      IF "base" \in observe THEN tests ELSE <<>>,
                      pass.callback.attempt, pass.callback # NoCallback)
                  EXCEPT !.stale = IF "stale" \in observe
                                   THEN RunningIds(stored_tests[pass.file])
                                        \cap EvIds(evs, {"move"})
                                   ELSE {}]
     /\ stored_tests' = [stored_tests EXCEPT ![pass.file] = loop.tests]
     /\ trace' = evs
     /\ passes' = passes (-) SetToBag({pass})
     /\ scheduled' = IF pass.callback # NoCallback
                     THEN Append(scheduled, RetryCall(pass.file, pass.callback))
                     ELSE scheduled
     /\ removed' = IF "removed" \notin observe THEN removed
                    ELSE [removed EXCEPT ![pass.file] =
                            @ \cup EvIds(evs, {"clear"})]
     /\ UNCHANGED <<observe, results, jobs, ext_output, show_on_run, ext_started,
                    unmatched>>

\* get_nearest_test(line, file_name, strict): what the finder may return,
\* NoTest standing for None
NearestTests(line, file_name, strict) ==
  LET tests == stored_tests[file_name]
      found == {tests[k] : k \in NearestCandidates(line, tests, strict)}
  IN IF found = {} THEN {NoTest} ELSE found

\* faulty variant: the output is opened whatever test is nearest
ShownAnyNearest(result, buffer, nearest) ==
  /\ result.code # 0
  /\ buffer = result.file

\* _present_output: the conditions under which ultest#output#open is called
Shown(result, buffer, nearest) ==
  /\ result.code # 0
  /\ buffer = result.file
  /\ nearest # NoTest
  /\ nearest.id = result.id

\* _present_output(result), run from the schedule queue; buffer is the
\* result of expand("%"), line the cursor line of the buffer and nearest
\* the answer of get_nearest_test(line, result.file, strict=False)
present_output(result, buffer, line, nearest) ==
  LET shown == Shown(result, buffer, nearest)
  IN /\ last' = [Step("present_output", result.file, result.id, <<>>, <<>>, 0,
                      shown)
                   EXCEPT !.buffer = buffer, !.line = line, !.result = result]
     /\ trace' = IF shown THEN << Ev("output_open", NoTest, result) >> ELSE <<>>
     /\ scheduled' = Tail(scheduled)
     /\ UNCHANGED <<observe, stored_tests, results, jobs, passes, ext_output,
                    show_on_run, ext_started, removed, unmatched>>

\* get_nearest_test(line, file_name, strict) returning nearest
get_nearest_test(line, file_name, strict, nearest) ==
  /\ last' = [Step("get_nearest_test", file_name, nearest.id, <<>>, <<>>, 0,
                   strict)
                EXCEPT !.line = line]
  /\ trace' = <<>>
  /\ UNCHANGED <<observe, stored_tests, results, jobs, passes, scheduled,
                 ext_output, show_on_run, ext_started, removed, unmatched>>

\* get_attach_script(test_id): delegates to create_attach_script
get_attach_script(test_id) ==
  /\ last' = Step("get_attach_script", "", test_id, <<>>, <<>>, 0,
                  is_running(test_id))
  /\ trace' = << Ev("create_attach_script", Test(test_id, "", 0, FALSE),
                    NoResult) >>
  /\ UNCHANGED <<observe, stored_tests, results, jobs, passes, scheduled,
                 ext_output, show_on_run, ext_started, removed, unmatched>>

\* os.path.isfile(file_name) and the outcome of ultest#adapter#get_patterns
\* (asked only when the file exists)
PositionInputs ==
  {<<TRUE, "ok">>, <<TRUE, "empty">>, <<TRUE, "raise">>, <<FALSE, "ok">>}
Buffers == Files \cup {"other"}

\* ------------------------------------------------------------- actions
\* the inputs update_positions reads, where the operation gets that far
InputsFor(file, update_empty) ==
  IF stored_tests[file] = <<>> /\ update_empty THEN PositionInputs
  ELSE {<<TRUE, "ok">>}

RunAll ==
  \E f \in Files : \E in \in InputsFor(f, TRUE) :
    run_all(f, TRUE, 0, in[1], in[2], scheduled)

RunNearest ==
  \E l \in Lines, f \in Files : \E in \in InputsFor(f, TRUE) :
    run_nearest(l, f, TRUE, 0, in[1], in[2], scheduled)

RunSingle == \E i \in Ids, f \in Files : run_single(i, f)

Update ==
  \E f \in Files, in \in PositionInputs : UpdatePositions(f, in[1], in[2])

RunnerResume ==
  \E pass \in BagToSet(passes) : \E tests \in FindAllResults[pass.file] :
    Runner(pass, tests)

RunComplete ==
  \E f \in Files, i \in Ids, c \in Codes, o \in Outputs : RunDone(f, i, c, o)

ExternalStart ==
  \E i \in Ids, f \in Files, o \in Outputs : external_start(i, f, o)

ExternalResult ==
  \E i \in Ids, f \in Files, r \in BOOLEAN, c \in Codes, o \in Outputs :
    external_result(i, f, r, c, o)

StopTest ==
  \/ stop_test(FALSE, "", "")
  \/ \E i \in Ids, f \in Files : stop_test(TRUE, i, f)

\* the three payload handlers as the editor may call them, any payload
ExternalStartPayload ==
  \E k \in PayloadKeys, i \in Ids, f \in Files, o \in Outputs :
    external_start_payload(k, i, f, o)

ExternalResultPayload ==
  \E k \in PayloadKeys, i \in Ids, f \in Files, r \in BOOLEAN, c \in Codes,
     o \in Outputs :
    external_result_payload(k, i, f, r, c, o)

StopTestPayload ==
  \E k \in PayloadKeys, i \in Ids, f \in Files : stop_test_payload(k, i, f)

GetNearest ==
  \E l \in Lines, f \in Files, strict \in BOOLEAN :
    \E n \in NearestTests(l, f, strict) : get_nearest_test(l, f, strict, n)

GetAttachScript == \E i \in Ids : get_attach_script(i)

\* the event loop runs the deferred call at the head of its queue
DeferredRunAll ==
  /\ scheduled # <<>>
  /\ Head(scheduled).op = "run_all"
  /\ LET c == Head(scheduled)
     IN \E in \in InputsFor(c.file, c.update_empty) :
          run_all(c.file, c.update_empty, c.attempt, in[1], in[2],
                  Tail(scheduled))

DeferredRunNearest ==
  /\ scheduled # <<>>
  /\ Head(scheduled).op = "run_nearest"
  /\ LET c == Head(scheduled)
     IN \E in \in InputsFor(c.file, c.update_empty) :
          run_nearest(c.line, c.file, c.update_empty, c.attempt, in[1],
                      in[2], Tail(scheduled))

DeferredPresentOutput ==
  /\ scheduled # <<>>
  /\ Head(scheduled).op = "present_output"
  /\ \E b \in Buffers, l \in Lines :
       \E n \in NearestTests(l, Head(scheduled).result.file, FALSE) :
         present_output(Head(scheduled).result, b, l, n)

Next ==
  \/ RunAll
  \/ RunNearest
  \/ RunSingle
  \/ Update
  \/ RunnerResume
  \/ RunComplete
  \/ ExternalStartPayload
  \/ ExternalResultPayload
  \/ StopTestPayload
  \/ GetNearest
  \/ GetAttachScript
  \/ DeferredRunAll
  \/ DeferredRunNearest
  \/ DeferredPresentOutput

Spec == Init /\ [][Next]_vars

\* ---------------------------------------------------------- scenarios
\* Each specification below lets the editor call a subset of the operations.

\* The file is edited and its positions refreshed, while an external runner
\* reports results
ExternalResultPlain ==
  \E i \in Ids, f \in Files, c \in Codes : external_result(i, f, FALSE, c, "")

InitDiff ==
  /\ InitHandler
  /\ show_on_run = FALSE
  /\ observe = {"base", "removed"}
NextDiff == Update \/ RunnerResume \/ ExternalResultPlain
SpecDiff == InitDiff /\ [][NextDiff]_vars

\* The file is edited and refreshed while its test "a" is run
RunSingleA == \E f \in Files : run_single("a", f)

RunCompletePlain == \E f \in Files, i \in Ids : RunDone(f, i, 0, "")

InitMove == InitHandler /\ show_on_run = FALSE /\ observe = {"base", "stale"}
NextMove ==
  \/ Update
  \/ RunnerResume
  \/ RunSingleA
  \/ RunCompletePlain
SpecMove == InitMove /\ [][NextMove]_vars

\* Tests are run in a file whose positions were never refreshed
InitRetry == Init /\ show_on_run = FALSE
NextRetry ==
  \/ RunAll
  \/ RunNearest
  \/ RunnerResume
  \/ DeferredRunAll
  \/ DeferredRunNearest
  \/ RunCompletePlain
SpecRetry == InitRetry /\ [][NextRetry]_vars

\* update_positions called by the editor on a file with patterns
UpdateOk == \E f \in Files : UpdatePositions(f, TRUE, "ok")

\* The file is refreshed and run while an external runner reports one failure
ExternalFailure ==
  \E f \in Files : external_result("a", f, FALSE, 1, "")

InitOrder == Init /\ show_on_run = FALSE
NextOrder ==
  \/ RunAll
  \/ UpdateOk
  \/ RunnerResume
  \/ DeferredRunAll
  \/ ExternalFailure
SpecOrder == InitOrder /\ [][NextOrder]_vars

\* The scenarios below leave the file alone: every refresh finds test "a"
\* at line 1 and test "b" at line 2
UneditedTests ==
  [f \in Files |-> << Test("a", f, 1, FALSE), Test("b", f, 2, FALSE) >>]

RunnerResumeUnedited ==
  \E pass \in BagToSet(passes) : Runner(pass, UneditedTests[pass.file])

\* Tests are run and stopped
InitStop == InitHandler /\ show_on_run = FALSE /\ observe = {"prior"}
NextStop ==
  \/ UpdateOk
  \/ RunnerResumeUnedited
  \/ RunAll
  \/ StopTest
  \/ RunCompletePlain
SpecStop == InitStop /\ [][NextStop]_vars

\* An external runner reports test "a"
ExternalStartA == \E f \in Files, o \in Outputs : external_start("a", f, o)

ExternalResultA ==
  \E f \in Files, r \in BOOLEAN, c \in Codes, o \in Outputs :
    external_result("a", f, r, c, o)

\* Runs from the editor and results of an external runner complete in any
\* order
InitCache == InitHandler /\ show_on_run = FALSE /\ observe = {"prior"}
NextCache ==
  \/ UpdateOk
  \/ RunnerResumeUnedited
  \/ RunSingle
  \/ RunComplete
  \/ ExternalResult
SpecCache == InitCache /\ [][NextCache]_vars

\* An external runner reports starts and results of test "a" while it is
\* also run from the editor
InitInject ==
  /\ InitHandler
  /\ show_on_run = FALSE
  /\ observe = {"external", "unmatched"}
NextInject ==
  \/ UpdateOk
  \/ RunnerResumeUnedited
  \/ RunSingleA
  \/ RunCompletePlain
  \/ ExternalStartA
  \/ ExternalResultA
SpecInject == InitInject /\ [][NextInject]_vars

\* Output is shown on completion (g:ultest_output_on_run) while test "a" is
\* run, the file is edited and the cursor moves
InitPresent == InitHandler /\ show_on_run = TRUE /\ observe = {}
RunCompleteOutput ==
  \E f \in Files, i \in Ids, c \in Codes : RunDone(f, i, c, "out")

NextPresent ==
  \/ UpdateOk
  \/ RunnerResume
  \/ RunSingleA
  \/ RunCompleteOutput
  \/ DeferredPresentOutput
SpecPresent == InitPresent /\ [][NextPresent]_vars

\* Every operation the editor or an external runner calls, on a file that is
\* not edited; a run ends when it is stopped
ExternalStartPlain == \E f \in Files : external_start("a", f, "")

InitFrame == InitHandler /\ show_on_run = FALSE /\ observe = {}
NextFrame ==
  \/ UpdateOk
  \/ RunnerResumeUnedited
  \/ RunAll
  \/ RunNearest
  \/ RunSingle
  \/ ExternalStartPlain
  \/ ExternalFailure
  \/ StopTest
  \/ GetNearest
  \/ GetAttachScript
  \/ DeferredRunAll
  \/ DeferredRunNearest
SpecFrame == InitFrame /\ [][NextFrame]_vars

\* Positions are refreshed and tests run in a file that may be missing or
\* have no patterns, while an external runner reports a failure
InitUnavailable == Init /\ show_on_run = FALSE
NextUnavailable ==
  \/ Update
  \/ RunAll
  \/ RunNearest
  \/ RunnerResumeUnedited
  \/ DeferredRunAll
  \/ DeferredRunNearest
  \/ ExternalFailure
SpecUnavailable == InitUnavailable /\ [][NextUnavailable]_vars

\* scenario with fairness: every launched run coroutine is a task of the
\* event loop of its own and is resumed once its process has finished, while
\* passes add, move and remove tests
InitLive == InitHandler /\ show_on_run = FALSE /\ observe = {}
NextLive ==
  \/ Update
  \/ RunnerResume
  \/ RunSingleA
  \/ RunCompletePlain
FairLive == \A f \in Files, i \in Ids : WF_vars(RunDone(f, i, 0, ""))
SpecLive == InitLive /\ [][NextLive]_vars /\ FairLive

\* scenario: tests are dispatched again while their runs are active
InitRerun == InitHandler /\ show_on_run = FALSE /\ observe = {"overlap"}
NextRerun ==
  \/ UpdateOk
  \/ RunnerResumeUnedited
  \/ RunAll
  \/ RunSingle
  \/ RunCompletePlain
  \/ DeferredRunAll
SpecRerun == InitRerun /\ [][NextRerun]_vars

\* scenario: update_positions is called again before the runner of an
\* earlier call has been resumed, while the file is edited
InitOverlap == InitHandler /\ show_on_run = FALSE /\ observe = {"overlap"}
NextOverlap ==
  \/ UpdateOk
  \/ RunnerResume
SpecOverlap == InitOverlap /\ [][NextOverlap]_vars

\* scenario: well-formed and malformed payloads reach the three payload
\* handlers while tests are discovered, run and reported
ExternalStartKeys == \E k \in PayloadKeys : external_start_payload(k, "a", "f", "out")
ExternalResultKeys ==
  \E k \in PayloadKeys : external_result_payload(k, "a", "f", FALSE, 1, "")
InitPayload == InitHandler /\ show_on_run = FALSE /\ observe = {}
NextPayload ==
  \/ UpdateOk
  \/ RunnerResumeUnedited
  \/ RunAll
  \/ ExternalStartKeys
  \/ ExternalResultKeys
  \/ StopTestPayload
  \/ DeferredRunAll
SpecPayload == InitPayload /\ [][NextPayload]_vars

\* ------------------------------------------------------------ properties
Count(evs, kinds, id) ==
  Cardinality({k \in 1..Len(evs) : evs[k].ev \in kinds /\ evs[k].test.id = id})

Kind(evs, kinds) == {k \in 1..Len(evs) : evs[k].ev \in kinds}

\* C1: when a runner has resumed with the tests N found, P being the tests
\* recorded when its update_positions was called: each id of P missing from
\* N got exactly one removal, each id of N missing from P exactly one
\* notification that is new-test or replace, and an id in both got none of
\* the three.
C1_ExhaustiveDiff ==
  last.op = "runner" =>
    LET P == SeqIds(last.recorded)
        N == SeqIds(last.found)
    IN \A id \in Ids :
         /\ id \in P \ N => Count(trace, {"clear"}, id) = 1
         /\ id \in N \ P => Count(trace, {"new", "replace"}, id) = 1
         /\ id \in P \cap N =>
              Count(trace, {"clear", "new", "replace"}, id) = 0

C1_Witness ==
  /\ last.op = "runner"
  /\ SeqIds(last.recorded) \ SeqIds(last.found) # {}
  /\ SeqIds(last.found) \ SeqIds(last.recorded) # {}

\* C3: a pass that finds an id which an earlier pass reported removed, and
\* which the tests recorded for this pass do not hold, reports it with one
\* replace notification carrying the cached Result when the cache holds one
\* for (file, id), and never as new then; it reports it as new only when
\* the cache holds none.
C3_ReappearanceRestoresResult ==
  last.op = "runner" =>
    \A k \in 1..Len(last.found) :
      LET t == last.found[k]
          cached == results[last.file][t.id]
      IN (t.id \in removed[last.file] /\ t.id \notin SeqIds(last.recorded)) =>
           IF cached # NoResult
           THEN /\ Count(trace, {"new"}, t.id) = 0
                /\ Count(trace, {"replace"}, t.id) = 1
                /\ \A j \in Kind(trace, {"replace"}) :
                     trace[j].test.id = t.id => trace[j].res = cached
           ELSE /\ Count(trace, {"replace"}, t.id) = 0
                /\ Count(trace, {"new"}, t.id) = 1

C3_Witness ==
  /\ last.op = "runner"
  /\ \E j \in Kind(trace, {"replace"}) :
       /\ trace[j].test.id \in removed[last.file]
       /\ trace[j].res = results[last.file][trace[j].test.id]
       /\ trace[j].res # NoResult

\* C2: a pass that finds, at a different line, an id of the tests recorded
\* for it reports that test with exactly one move notification and with no
\* clear, new or replace; the running flag of the notification and of the
\* committed snapshot entry is what is_running answers for the id, whatever
\* flag the replaced snapshot held.
C2_IdentityStability ==
  last.op = "runner" =>
    \A k \in 1..Len(last.found) :
      LET t == last.found[k] IN
      \A j \in 1..Len(last.recorded) :
        (last.recorded[j].id = t.id /\ last.recorded[j].line # t.line) =>
          /\ Count(trace, {"move"}, t.id) = 1
          /\ Count(trace, {"clear", "new", "replace"}, t.id) = 0
          /\ \A m \in Kind(trace, {"move"}) :
               trace[m].test.id = t.id =>
                 /\ trace[m].test.line = t.line
                 /\ trace[m].test.running = is_running(t.id)
          /\ stored_tests[last.file][k].id = t.id
          /\ stored_tests[last.file][k].line = t.line
          /\ stored_tests[last.file][k].running = is_running(t.id)

\* a moved test whose flag in the replaced snapshot differed from the live
\* state
C2_Witness ==
  /\ last.op = "runner"
  /\ \E m \in Kind(trace, {"move"}) :
       /\ trace[m].test.id \in SeqIds(last.recorded)
       /\ trace[m].test.running # (trace[m].test.id \in last.stale)

\* C5: the retry a refresh schedules never refreshes again.  A queued
\* run_all/run_nearest call is the first retry (attempt 1) and has
\* update_empty off, a pending pass carries only a first attempt's callback,
\* and a run_all/run_nearest that found the snapshot empty called
\* update_positions exactly once (launching at most one runner, which
\* carries the same operation as its callback) when it was the user's call
\* and did nothing at all when it was the retry.
C5_RetryBound ==
  /\ \A k \in 1..Len(scheduled) :
       scheduled[k].op \in {"run_all", "run_nearest"} =>
         scheduled[k].attempt = 1 /\ ~scheduled[k].update_empty
  /\ \A p \in BagToSet(passes) :
       p.callback # NoCallback => p.callback.attempt = 0
  /\ last.op \in {"run_all", "run_nearest"} =>
       /\ last.attempt \in {0, 1}
       /\ last.flag = (last.attempt = 0)
       /\ stored_tests[last.file] = <<>> =>
            IF last.attempt = 0
            THEN /\ Cardinality(Kind(trace, {"update_positions"})) = 1
                 /\ Cardinality(Kind(trace, {"launch_runner"})) <= 1
                 /\ Kind(trace, {"launch_runner"}) # {} =>
                      \E p \in BagToSet(passes) :
                        /\ p.file = last.file
                        /\ p.callback.op = last.op
            ELSE trace = <<>>

\* the retry ran on a snapshot that was still empty
C5_Witness ==
  /\ last.op \in {"run_all", "run_nearest"}
  /\ last.attempt = 1
  /\ stored_tests[last.file] = <<>>
  /\ trace = <<>>

\* C7: the effects of one runner, in order: the commit of the snapshot, the
\* per-test notifications in the order of the committed snapshot, the
\* removals, exactly one batch event after every per-test and removal
\* notification, and the continuation (when the pass has one) after the
\* commit and after the batch event.
C7_EventOrder ==
  last.op = "runner" =>
    LET snap == stored_tests[last.file]
        per == Kind(trace, {"move", "new", "replace"})
        clr == Kind(trace, {"clear"})
        bat == Kind(trace, {"positions_updated"})
        com == Kind(trace, {"commit"})
        cb == Kind(trace, {"callback"})
        pos(id) == CHOOSE j \in 1..Len(snap) : snap[j].id = id
    IN /\ \A i \in per : trace[i].test.id \in SeqIds(snap)
       /\ \A i \in per, j \in per :
            i < j => pos(trace[i].test.id) < pos(trace[j].test.id)
       /\ \A i \in per, j \in clr : i < j
       /\ Cardinality(bat) = 1
       /\ \A b \in bat, i \in per \cup clr : i < b
       /\ Cardinality(com) = 1
       /\ \A m \in com, i \in per \cup clr \cup bat : m < i
       /\ Cardinality(cb) = (IF last.flag THEN 1 ELSE 0)
       /\ \A c \in cb, i \in com \cup bat : i < c

\* a pass with a per-test notification and a removal
C7_Witness ==
  /\ last.op = "runner"
  /\ Kind(trace, {"move", "new", "replace"}) # {}
  /\ Kind(trace, {"clear"}) # {}

\* a pass with two per-test notifications and a continuation
C7_WitnessContinuation ==
  /\ last.op = "runner"
  /\ Cardinality(Kind(trace, {"move", "new", "replace"})) = 2
  /\ Kind(trace, {"callback"}) # {}

\* C4: in every state, a test of a snapshot has its running flag set exactly
\* when a run of its id is active or an external_start of the id has been
\* followed neither by an external_result nor by a stop.
C4_RunningFlagInvariant ==
  \A f \in Files : \A k \in 1..Len(stored_tests[f]) :
    stored_tests[f][k].running
      <=> (is_running(stored_tests[f][k].id)
           \/ stored_tests[f][k].id \in ext_started)

\* C6: every test-finished notification for an id is preceded by a
\* test-started notification for the id that no earlier test-finished
\* notification has matched.
C6_StartBeforeResult == \A i \in Ids : unmatched[i] >= 0

\* C8: a completion (the run coroutine returning, or external_result) leaves
\* the cache as it was except that the entry of its (file, id) is the Result
\* it registered and notified; no other step changes the cache.  The cache
\* so holds, for an id, the Result of the completion registered last.
C8_LastResultWins ==
  [][IF last'.op \in {"run", "external_result"}
     THEN /\ Cardinality(Kind(trace', {"exit"})) = 1
          /\ \A e \in Kind(trace', {"exit"}) :
               /\ trace'[e].res.id = last'.id
               /\ results' = [results EXCEPT
                                ![last'.file][last'.id] = trace'[e].res]
     ELSE results' = results]_vars

\* a completion that replaced another Result of the same id
C8_Witness ==
  /\ last.op \in {"run", "external_result"}
  /\ last.prior
  /\ \E e \in Kind(trace, {"exit"}) :
       results[last.file][last.id] = trace[e].res

\* C9: an external_result for an id whose external_start was registered
\* leaves the cache holding the Result with the given exit code and output,
\* the external output buffer of the id empty and, when no run of the id
\* dispatched from the editor is active, the running flag of the test in the
\* snapshot false; the step builds no command and launches nothing.
C9_ExternalRoundTrip ==
  (last.op = "external_result" /\ last.flag) =>
    /\ Cardinality(Kind(trace, {"exit"})) = 1
    /\ \A e \in Kind(trace, {"exit"}) :
         results[last.file][last.id] = trace[e].res
    /\ ext_output[last.id] = ""
    /\ Kind(trace, {"build_cmd", "launch"}) = {}
    /\ ~is_running(last.id) =>
         \A k \in 1..Len(stored_tests[last.file]) :
           stored_tests[last.file][k].id = last.id =>
             ~stored_tests[last.file][k].running

\* C10: stop_test with a payload cancels the runs launched under the
\* payload's id and no other run, leaves the cache alone and notifies no
\* result; a result of an editor-dispatched run is notified only by a run
\* that was still active, which then registers it in the cache.
C10_CancellationIsolation ==
  [][/\ (last'.op = "stop_test" /\ last'.flag) =>
          /\ \A f \in Files, i \in Ids :
               jobs'[f][i] = IF i = last'.id THEN 0 ELSE jobs[f][i]
          /\ results' = results
          /\ Kind(trace', {"exit"}) = {}
     /\ last'.op = "run" =>
          /\ jobs[last'.file][last'.id] > 0
          /\ jobs'[last'.file][last'.id] = jobs[last'.file][last'.id] - 1
          /\ \E e \in Kind(trace', {"exit"}) :
               /\ trace'[e].res.id = last'.id
               /\ results'[last'.file][last'.id] = trace'[e].res]_vars

\* a stop that cancelled a run while a run of another test stayed active
C10_Witness ==
  /\ last.op = "stop_test"
  /\ last.prior
  /\ ~is_running(last.id)
  /\ \E i \in Ids \ {last.id} : is_running(i)

\* the run that a stop of another test left active has completed
C10_WitnessCompletes ==
  /\ last.op = "run"
  /\ \E i \in Ids \ {last.id} :
       /\ ~is_running(i)
       /\ \A f \in Files : results[f][i] = NoResult
       /\ \E f \in Files : \E k \in 1..Len(stored_tests[f]) :
            stored_tests[f][k].id = i /\ stored_tests[f][k].running

\* C11: ultest#output#open is called only by the deferred _present_output,
\* for the Result it was scheduled with, and only when that Result's exit
\* code is not 0, the displayed buffer is the Result's file and a test the
\* finder may return as nearest (non-strict) to the cursor line, in the
\* snapshot as it is when the deferred step runs, has the Result's id.
C11_OutputGating ==
  /\ Kind(trace, {"output_open"}) # {} =>
       last.op = "present_output" /\ Len(trace) = 1
  /\ last.op = "present_output" =>
       \A e \in Kind(trace, {"output_open"}) :
         /\ trace[e].res = last.result
         /\ last.result.code # 0
         /\ last.result.output # ""
         /\ last.buffer = last.result.file
         /\ \E t \in NearestTests(last.line, last.result.file, FALSE) :
              t # NoTest /\ t.id = last.result.id

\* the output of a failed run was opened
C11_Witness ==
  /\ last.op = "present_output"
  /\ Kind(trace, {"output_open"}) # {}
  /\ Len(stored_tests[last.file]) = 2

\* a failed run in the displayed buffer whose output was not opened: its
\* test is still in the snapshot but is not the nearest to the cursor
C11_WitnessSuppressed ==
  /\ last.op = "present_output"
  /\ last.result.code # 0
  /\ last.buffer = last.result.file
  /\ last.id \in SeqIds(stored_tests[last.file])
  /\ trace = <<>>

\* C12: a step that is not a runner committing leaves, in every file, the
\* tests of the snapshot and their order as they were (only running flags
\* may differ); a runner changes the snapshot of its own file only.
C12_SnapshotFrame ==
  [][\A f \in Files :
       (last'.op # "runner" \/ last'.file # f) =>
         Recorded(stored_tests'[f]) = Recorded(stored_tests[f])]_vars

\* a stop of a test flagged running, which is still in the snapshot
C12_Witness ==
  /\ last.op = "stop_test"
  /\ last.flag
  /\ last.id \in RunningIds(stored_tests[last.file])
  /\ last.id \in SeqIds(stored_tests[last.file])
  /\ Len(stored_tests[last.file]) = 2

\* the inputs with which update_positions has to return early
Unavailable(inputs) == ~inputs[1] \/ inputs[2] \in {"raise", "empty"}

\* C13: an update_positions (called by the editor, or by run_all/run_nearest
\* on an empty snapshot) that finds the file missing, or get_patterns
\* raising or returning nothing, leaves snapshot, cache, pending passes and
\* runs as they were, schedules nothing and has no effect besides being
\* entered: no reset, no notification, no runner launched, no callback.
C13_NoOpOnUnavailableInput ==
  [][(/\ last'.op \in {"update_positions", "run_all", "run_nearest"}
      /\ Unavailable(last'.inputs)) =>
       /\ stored_tests' = stored_tests
       /\ results' = results
       /\ passes' = passes
       /\ jobs' = jobs
       /\ \/ scheduled' = scheduled
          \/ scheduled # <<>> /\ scheduled' = Tail(scheduled)
       /\ \A k \in 1..Len(trace') : trace'[k].ev = "update_positions"]_vars

\* a run_all that found no tests and no patterns, with a Result cached
C13_Witness ==
  /\ last.op = "run_all"
  /\ last.inputs = <<TRUE, "empty">>
  /\ trace # <<>>
  /\ passes = EmptyBag
  /\ scheduled = <<>>
  /\ \E f \in Files, i \in Ids : results[f][i] # NoResult

\* C14: a non-empty payload whose keys are not exactly the fields of Test is
\* rejected by external_start, external_result and stop_test with an error
\* before any effect: no snapshot, cache, run, pass, deferred call or
\* external output changes, and nothing is sent to the editor or the
\* process manager.
C14_MalformedFailsClosed ==
  [][(/\ last'.op \in {"external_start", "external_result", "stop_test"}
      /\ last'.keys # {}
      /\ last'.keys # TestFields) =>
       /\ last'.raised
       /\ trace' = <<>>
       /\ UNCHANGED <<stored_tests, results, jobs, passes, scheduled,
                      ext_output, show_on_run, ext_started, removed,
                      unmatched>>]_vars

\* a payload with an extra key is refused by stop_test while its test runs
C14_Witness ==
  /\ last.op = "stop_test"
  /\ last.keys = TestFields \cup {"extra"}
  /\ last.raised
  /\ \E f \in Files, i \in Ids : jobs[f][i] > 0
  /\ \E f \in Files, i \in Ids : results[f][i] # NoResult

\* C15: stop_test without a payload (None or empty) changes nothing and
\* sends nothing; with a payload it cancels the runs of that id and of no
\* other, leaves snapshot and cache alone, and sends exactly one move
\* notification, for that test, with running cleared.
C15_StopFrame ==
  [][(last'.op = "stop_test" /\ ~last'.raised) =>
       IF ~last'.flag
       THEN /\ trace' = <<>>
            /\ UNCHANGED <<stored_tests, results, jobs, passes, scheduled,
                           ext_output, show_on_run>>
       ELSE /\ jobs' = [f \in Files |-> [i \in Ids |->
                          IF i = last'.id THEN 0 ELSE jobs[f][i]]]
            /\ Cardinality(Kind(trace', {"move"})) = 1
            /\ \A k \in Kind(trace', {"move"}) :
                 /\ trace'[k].test.id = last'.id
                 /\ ~trace'[k].test.running
            /\ \A k \in 1..Len(trace') : trace'[k].ev \in {"stop", "move"}
            /\ UNCHANGED <<stored_tests, results, passes, scheduled>>]_vars

\* a dispatched test is stopped while another one keeps running
C15_Witness ==
  /\ last.op = "stop_test"
  /\ last.flag
  /\ \E f \in Files :
       /\ \E k \in 1..Len(stored_tests[f]) :
            stored_tests[f][k].id = last.id /\ stored_tests[f][k].running
       /\ jobs[f][last.id] = 0
       /\ \E i \in Ids \ {last.id} : jobs[f][i] > 0
  /\ Cardinality(Kind(trace, {"move"})) = 1

\* stop_test with an empty payload while tests run
C15_WitnessNoPayload ==
  /\ last.op = "stop_test"
  /\ ~last.flag
  /\ ~last.raised
  /\ trace = <<>>
  /\ \E f \in Files, i \in Ids : jobs[f][i] > 0

\* C16: every active run eventually reports, whatever passes and runs come
\* in between and whether or not its test is still in the snapshot; the
\* report of one run ends that run only, stores its Result under the test's
\* file and sends exactly one exit notification, carrying that Result.
C16_EveryRunReports ==
  /\ \A f \in Files, i \in Ids :
       (jobs[f][i] > 0) ~>
         (/\ last.op = "run" /\ last.file = f /\ last.id = i
          /\ results[f][i] # NoResult
          /\ Count(trace, {"exit"}, i) = 1)
  /\ [][last'.op = "run" =>
          /\ jobs[last'.file][last'.id] > 0
          /\ jobs' = [jobs EXCEPT ![last'.file] =
                        [@ EXCEPT ![last'.id] = @ - 1]]
          /\ results'[last'.file][last'.id] # NoResult
          /\ Cardinality(Kind(trace', {"exit"})) = 1
          /\ \A k \in Kind(trace', {"exit"}) :
               /\ trace'[k].test.id = last'.id
               /\ trace'[k].res = results'[last'.file][last'.id]]_vars

\* a run reports after a pass has removed its test from the snapshot
C16_Witness ==
  /\ last.op = "run"
  /\ last.id \notin SeqIds(stored_tests[last.file])
  /\ passes = EmptyBag
  /\ results[last.file][last.id] # NoResult
  /\ Count(trace, {"exit"}, last.id) = 1

\* C17: in every reachable state at most one run is active per test id,
\* however run_all, run_nearest and run_single are combined.
C17_OneTaskPerId == \A f \in Files, i \in Ids : jobs[f][i] <= 1

\* C18: every pass reports the difference between what it found and the
\* snapshot of the file as it is when the pass commits: the ids it reports
\* new or replaced are those it adds to the snapshot, and the ids it reports
\* removed are those it takes out, so that no id is reported new twice or
\* removed twice in a row and the reports add up to the committed snapshot.
C18_DiffAgainstCurrentSnapshot ==
  [][last'.op = "runner" =>
       /\ EvIds(trace', {"new", "replace"})
            = SeqIds(stored_tests'[last'.file]) \ SeqIds(stored_tests[last'.file])
       /\ EvIds(trace', {"clear"})
            = SeqIds(stored_tests[last'.file]) \ SeqIds(stored_tests'[last'.file])]_vars

\* C19: the reset of the editor's per-file caches (results, tests, sorted
\* tests) is sent only by the first pass that populates a file: a pass
\* called when the snapshot of the file holds tests, or after an earlier
\* pass has reported tests of the file removed, sends no reset.
C19_ResetOnlyOnFirstPopulation ==
  [][(/\ last'.op \in {"update_positions", "run_all", "run_nearest"}
      /\ last'.file \in Files
      /\ \/ stored_tests[last'.file] # <<>>
         \/ removed[last'.file] # {}) =>
       Kind(trace', {"setbufvar_results", "setbufvar_tests",
                     "setbufvar_sorted_tests"}) = {}]_vars

\* C20: run_single on a file whose snapshot is empty launches a pass that
\* carries the retry, as run_all and run_nearest do; run_single for an id
\* that a non-empty snapshot does not hold starts nothing, sends nothing and
\* launches nothing.
C20_RunSingleOnEmptySnapshot ==
  [][last'.op = "run_single" =>
       /\ stored_tests[last'.file] = <<>> =>
            /\ BagCardinality(passes') = BagCardinality(passes) + 1
            /\ \E pass \in BagToSet(passes') :
                 /\ pass.file = last'.file
                 /\ pass.callback # NoCallback
       /\ (/\ stored_tests[last'.file] # <<>>
           /\ last'.id \notin SeqIds(stored_tests[last'.file])) =>
            /\ trace' = <<>>
            /\ UNCHANGED <<stored_tests, jobs, passes, scheduled>>]_vars

====
